---- MODULE Spec2Model ----
(***************************************************************************)
(* Model of the plugin task runner (src/task_runner.py) and of the import  *)
(* hook demo (src/import_hook_demo.py).                                    *)
(*                                                                         *)
(* Strings are sequences of one-character strings, so that prefix tests,   *)
(* slicing and path handling are computed the way the code computes them.  *)
(* The unit cache is sys.modules, the resolver chain is sys.meta_path, a   *)
(* Unit is a module object living in a heap indexed by allocation order.   *)
(***************************************************************************)
EXTENDS Integers, Sequences, FiniteSets, TLC

(***************************************************************************)
(* Bounds of the model.                                                    *)
(***************************************************************************)
MaxUnits == 1
MaxEdits == 1
MaxFinders == 2
MaxCollideUnits == 3

(***************************************************************************)
(* String literals.                                                        *)
(***************************************************************************)
PATH_PREFIX == <<"p", "a", "t", "h", ":">>
NAME_PREFIX == <<"n", "a", "m", "e", ":">>
PLUGIN_MARKER == <<"_", "_", "p", "l", "u", "g", "i", "n", "_", "_">>
PY_SUFFIX == <<".", "p", "y">>
DEMO_HOOK == <<"d", "e", "m", "o", "_", "h", "o", "o", "k">>

\* str.startswith
StartsWith(s, pre) ==
    /\ Len(s) >= Len(pre)
    /\ SubSeq(s, 1, Len(pre)) = pre

\* s[n:]
DropPrefix(s, n) == SubSeq(s, n + 1, Len(s))

\* str.endswith
EndsWith(s, suf) ==
    /\ Len(s) >= Len(suf)
    /\ SubSeq(s, Len(s) - Len(suf) + 1, Len(s)) = suf

(***************************************************************************)
(* pathlib.  A path is [abs, parts]: whether it is anchored at the root    *)
(* and its components; empty and "." components are dropped when a path is *)
(* parsed, ".." is only collapsed by resolve().                            *)
(***************************************************************************)
Flush(cur, acc) == IF cur = <<>> \/ cur = <<".">> THEN acc ELSE Append(acc, cur)

RECURSIVE Scan(_, _, _)
Scan(s, cur, acc) ==
    IF s = <<>> THEN Flush(cur, acc)
    ELSE IF Head(s) = "/" THEN Scan(Tail(s), <<>>, Flush(cur, acc))
    ELSE Scan(Tail(s), Append(cur, Head(s)), acc)

\* Path(s)
PathOf(s) == [abs |-> s # <<>> /\ Head(s) = "/", parts |-> Scan(s, <<>>, <<>>)]

\* a / b : an absolute right operand replaces the left one
PathJoin(a, b) ==
    IF b.abs THEN b ELSE [abs |-> a.abs, parts |-> a.parts \o b.parts]

RECURSIVE Collapse(_, _)
Collapse(parts, acc) ==
    IF parts = <<>> THEN acc
    ELSE IF Head(parts) = <<".", ".">>
         THEN Collapse(Tail(parts),
                       IF acc = <<>> THEN acc ELSE SubSeq(acc, 1, Len(acc) - 1))
         ELSE Collapse(Tail(parts), Append(acc, Head(parts)))

\* the working directory of the process
Cwd == [abs |-> TRUE, parts |-> << <<"w">> >>]

\* Path.resolve(): absolute, ".." collapsed
Resolve(p) ==
    [abs |-> TRUE,
     parts |-> Collapse(IF p.abs THEN p.parts ELSE Cwd.parts \o p.parts, <<>>)]

\* Path.name
PathName(p) == IF p.parts = <<>> THEN <<>> ELSE p.parts[Len(p.parts)]

\* str.rfind("."), 1-based, 0 when there is no dot
RECURSIVE RFindDot(_, _)
RFindDot(s, i) ==
    IF i = 0 THEN 0
    ELSE IF s[i] = "." THEN i
    ELSE RFindDot(s, i - 1)

\* Path.stem: the name without its last suffix
PathStem(p) ==
    LET name == PathName(p)
        k == RFindDot(name, Len(name))
    IN IF 1 < k /\ k < Len(name) THEN SubSeq(name, 1, k - 1) ELSE name

(***************************************************************************)
(* The file system.  Known directories, and files whose content is a       *)
(* program, or that are missing, or that exist but cannot be read.         *)
(***************************************************************************)
Missing == [st |-> "missing", data |-> <<>>]
Unreadable == [st |-> "unreadable", data |-> <<>>]
FileOf(content) == [st |-> "file", data |-> content]
Directory == [st |-> "dir", data |-> <<>>]

DirP == << <<"p">> >>
DirQ == << <<"q">> >>
DirS == << <<"s">> >>
DirL == << <<"l">> >>
FileH == <<"h", ".", "p", "y">>
FileG == <<"g", ".", "p", "y">>
FileJ == <<"j", ".", "p", "y">>
FileK == <<"k", ".", "p", "y">>
FileD == DEMO_HOOK \o PY_SUFFIX
FilePH == DirP \o <<FileH>>
FilePG == DirP \o <<FileG>>
FileQH == DirQ \o <<FileH>>
FileQG == DirQ \o <<FileG>>
FileSJ == DirS \o <<FileJ>>
FileSK == DirS \o <<FileK>>
FileSD == DirS \o <<FileD>>

Dirs == {<<>>, DirP, DirQ, DirS, DirL, Cwd.parts}
Files == {FilePH, FilePG, FileQH, FileQG, FileSJ, FileSK, FileSD}

\* sys.path: the directory the path-based finder searches
SysPath == [abs |-> TRUE, parts |-> DirS]

(***************************************************************************)
(* Module contents: a program is a sequence of steps, each assigning one   *)
(* attribute of the module it runs against, or raising.  A lookup step is  *)
(* SELF = sys.modules.get(__name__): it assigns what the cache holds under *)
(* the module's own name while the module is being executed.               *)
(***************************************************************************)
Absent == "absent"
AttrNames == {"VALUE", "EXTRA", "SELF", "main", "hello"}
EmptyAttrs == [a \in AttrNames |-> Absent]

SetAttr(a, v) == [op |-> "set", attr |-> a, val |-> v]
RaiseStep == [op |-> "raise", attr |-> "", val |-> ""]
LookupStep == [op |-> "lookup", attr |-> "SELF", val |-> ""]

ContentOne ==
    <<LookupStep, SetAttr("VALUE", "1"), SetAttr("main", "mainOne")>>
ContentZero == <<SetAttr("EXTRA", "2"), SetAttr("main", "mainZero")>>
ContentBad == <<SetAttr("VALUE", "3"), RaiseStep, SetAttr("main", "mainOne")>>
ContentNoMain == <<SetAttr("VALUE", "4")>>
Contents == {ContentOne, ContentZero, ContentBad, ContentNoMain}

\* DemoFinder.exec_module: module.VALUE = 123; module.hello = lambda
DemoContent == <<SetAttr("VALUE", "123"), SetAttr("hello", "lambda")>>

\* run a program against an attribute mapping, stopping at the first raise;
\* seen is what a lookup of the module's own name in the cache yields
RECURSIVE RunSteps(_, _, _)
RunSteps(steps, attrs, seen) ==
    IF steps = <<>> THEN [outcome |-> "ok", attrs |-> attrs]
    ELSE IF Head(steps).op = "raise"
         THEN [outcome |-> "RuntimeError", attrs |-> attrs]
         ELSE RunSteps(Tail(steps),
                       [attrs EXCEPT ![Head(steps).attr] =
                           IF Head(steps).op = "lookup" THEN seen
                           ELSE Head(steps).val],
                       seen)

(***************************************************************************)
(* State.                                                                  *)
(***************************************************************************)
VARIABLES
    fs,         \* file path -> FileOf(program) | Missing | Unreadable
    meta_path,  \* sys.meta_path: the resolver chain, front first
    modules,    \* sys.modules: logical name -> unit (index into heap)
    heap,       \* the module objects in allocation order; an object that
                \* nothing refers to any more is collected (Collected)
    pc,         \* position of main()'s run command
    cur,        \* main()'s local variable `module` (0: none)
    label,      \* main()'s local variable `label`
    edits,      \* number of file changes made by the environment so far
    last        \* what the latest operation did

vars == <<fs, meta_path, modules, heap, pc, cur, label, edits, last>>

(***************************************************************************)
(* Resolver chain.                                                         *)
(***************************************************************************)
NoSpec == [name |-> <<>>, origin |-> <<>>, loader |-> "none"]

HasChar(s, c) == \E i \in 1..Len(s) : s[i] = c

Exists(parts) ==
    parts \in Dirs \/ (parts \in DOMAIN fs /\ fs[parts] # Missing)

\* the built-in path based finder: <sys.path entry>/<name>.py
PathFinderSpec(name) ==
    LET file == SysPath.parts \o <<name \o PY_SUFFIX>>
    IN IF /\ name # <<>>
          /\ ~HasChar(name, "/")
          /\ ~HasChar(name, ".")
          /\ file \in Files
          /\ fs[file] # Missing
       THEN [name |-> name, origin |-> file, loader |-> "pathfinder"]
       ELSE NoSpec

\* a find_spec that compares the name with "demo" instead of "demo_hook"
DemoFinderSpec_miss(name) ==
    IF name = <<"d", "e", "m", "o">>
    THEN [name |-> name, origin |-> <<>>, loader |-> "demo"]
    ELSE NoSpec

\* DemoFinder.find_spec
DemoFinderSpec(name) ==
    IF name = DEMO_HOOK
    THEN [name |-> name, origin |-> <<>>, loader |-> "demo"]
    ELSE NoSpec

FinderSpec(finder, name) ==
    IF finder = "DemoFinder" THEN DemoFinderSpec(name) ELSE PathFinderSpec(name)

\* a chain walk in which a later finder's answer replaces an earlier one's
RECURSIVE FindSpec_back(_, _)
FindSpec_back(chain, name) ==
    IF chain = <<>> THEN NoSpec
    ELSE LET s == FindSpec_back(Tail(chain), name)
         IN IF s # NoSpec THEN s ELSE FinderSpec(Head(chain), name)

\* importlib.util.find_spec over sys.meta_path: first finder that matches wins
RECURSIVE FindSpec(_, _)
FindSpec(chain, name) ==
    IF chain = <<>> THEN NoSpec
    ELSE LET s == FinderSpec(Head(chain), name)
         IN IF s # NoSpec THEN s ELSE FindSpec(Tail(chain), name)

\* find_spec that asks the chain whether or not the name is cached
find_spec_uncached(mods, hp, name) ==
    [outcome |-> "ok", spec |-> FindSpec(meta_path, name)]

\* importlib.util.find_spec(name): a name that is in sys.modules is answered
\* with the __spec__ of the cached module (ValueError when that is None) and
\* the chain is not asked; any other name is answered by the chain
find_spec(mods, hp, name) ==
    IF name \in DOMAIN mods
    THEN IF hp[mods[name]].spec = NoSpec
         THEN [outcome |-> "ValueError", spec |-> NoSpec]
         ELSE [outcome |-> "ok", spec |-> hp[mods[name]].spec]
    ELSE [outcome |-> "ok", spec |-> FindSpec(meta_path, name)]

\* the texts find_spec_origin returns for no spec and for a spec whose
\* origin is None
NOT_FOUND == << <<"N", "O", "T", " ", "F", "O", "U", "N", "D">> >>
NONE_TEXT == << <<"N", "o", "n", "e">> >>

\* find_spec_origin(module_name)
find_spec_origin(mods, hp, module_name) ==
    LET r == find_spec(mods, hp, module_name)
    IN [outcome |-> r.outcome,
        spec |-> r.spec,
        text |-> IF r.outcome # "ok" THEN <<>>
                 ELSE IF r.spec = NoSpec THEN NOT_FOUND
                 ELSE IF r.spec.origin = <<>> THEN NONE_TEXT
                 ELSE r.spec.origin]

(***************************************************************************)
(* Directory listing: list_plugins.                                        *)
(***************************************************************************)
\* the characters of the file names of the model in code point order
Chars == <<".", "B", "_", "a", "b", "c", "d", "n", "p", "t", "x", "y">>
Ord(c) == CHOOSE i \in 1..Len(Chars) : Chars[i] = c

\* str.__lt__
RECURSIVE StrLess(_, _)
StrLess(s, t) ==
    IF t = <<>> THEN FALSE
    ELSE IF s = <<>> THEN TRUE
    ELSE IF Head(s) # Head(t) THEN Ord(Head(s)) < Ord(Head(t))
    ELSE StrLess(Tail(s), Tail(t))

IsDir(parts) == parts \in Dirs \/ (parts \in DOMAIN fs /\ fs[parts].st = "dir")

\* plugin_dir.glob("*.py"): every entry of the directory, of whatever kind,
\* whose name ends with ".py"; nothing when plugin_dir is not a directory
Glob(dir) ==
    IF ~IsDir(dir) THEN {}
    ELSE {f \in DOMAIN fs :
             /\ Len(f) = Len(dir) + 1
             /\ SubSeq(f, 1, Len(dir)) = dir
             /\ fs[f] # Missing
             /\ EndsWith(f[Len(f)], PY_SUFFIX)}

\* sorted(paths): the paths of one directory in the order of their names
RECURSIVE Sorted(_)
Sorted(paths) ==
    IF paths = {} THEN <<>>
    ELSE LET m == CHOOSE p \in paths :
                     \A q \in paths : p = q \/ StrLess(p[Len(p)], q[Len(q)])
         IN <<m>> \o Sorted(paths \ {m})

PluginInfo(p) ==
    [name |-> PathStem([abs |-> TRUE, parts |-> p]), origin |-> p]

\* the loop of list_plugins: names that start with "_" are skipped
RECURSIVE Collect(_, _)
Collect(paths, out) ==
    IF paths = <<>> THEN out
    ELSE IF StartsWith(Head(paths)[Len(Head(paths))], <<"_">>)
    THEN Collect(Tail(paths), out)
    ELSE Collect(Tail(paths), Append(out, PluginInfo(Head(paths))))

\* list_plugins(plugin_dir)
list_plugins(plugin_dir) ==
    LET dir == Resolve(plugin_dir).parts
    IN IF ~Exists(dir) THEN <<>>
       ELSE Collect(Sorted(Glob(dir)), <<>>)

(***************************************************************************)
(* Loader / executor.                                                      *)
(***************************************************************************)
\* sys.modules.get(name) as seen by the module object id: itself, another
\* module, or nothing
LookupSelf(mods, name, id) ==
    IF name \notin DOMAIN mods THEN "none"
    ELSE IF mods[name] = id THEN "self"
    ELSE "other"

\* spec.loader.exec_module(module): run the content against the module
\* object id while the cache is mods
exec_module(spec, attrs, mods, id) ==
    IF spec.loader = "demo"
    THEN LET r == RunSteps(DemoContent, attrs,
                           LookupSelf(mods, spec.name, id))
         IN [outcome |-> r.outcome, attrs |-> r.attrs, executed |-> TRUE]
    ELSE LET data == IF spec.origin \in Files THEN fs[spec.origin] ELSE Missing
         IN IF data = Missing
            THEN [outcome |-> "FileNotFoundError", attrs |-> attrs,
                  executed |-> FALSE]
            ELSE IF data = Unreadable
            THEN [outcome |-> "OSError", attrs |-> attrs, executed |-> FALSE]
            ELSE LET r == RunSteps(data.data, attrs,
                                   LookupSelf(mods, spec.name, id))
                 IN [outcome |-> r.outcome, attrs |-> r.attrs,
                     executed |-> TRUE]

\* an assignment that leaves an existing entry alone (dict.setdefault)
CachePut_keep(mods, name, unit) ==
    [n \in (DOMAIN mods) \cup {name} |->
        IF n \in DOMAIN mods THEN mods[n] ELSE unit]

\* sys.modules[name] = unit
CachePut(mods, name, unit) ==
    [n \in (DOMAIN mods) \cup {name} |-> IF n = name THEN unit ELSE mods[n]]

\* del sys.modules[name]
CacheDel(mods, name) == [n \in (DOMAIN mods) \ {name} |-> mods[n]]

NewUnit(name, spec) == [name |-> name, spec |-> spec, attrs |-> EmptyAttrs]

\* the slot of a module object that has been garbage collected
Collected == NewUnit(<<>>, NoSpec)

\* module objects stay alive while sys.modules, main()'s `module` or the
\* result of the latest operation refers to them
Sweep(hp, mods, held) ==
    [i \in 1..Len(hp) |->
        IF i \in held \/ (\E n \in DOMAIN mods : mods[n] = i)
        THEN hp[i] ELSE Collected]

Failed(kind, mods, hp) ==
    [outcome |-> kind, unit |-> 0, modules |-> mods, heap |-> hp,
     executed |-> FALSE]

\* import_from_file with the cache entry taken back when execution fails
import_from_file_cleanup(mods, hp, module_name, file_path) ==
    LET rp == Resolve(file_path).parts
    IN IF ~Exists(rp) THEN Failed("FileNotFoundError", mods, hp)
       ELSE IF ~EndsWith(PathName(Resolve(file_path)), PY_SUFFIX)
       THEN Failed("ImportError", mods, hp)
       ELSE LET spec == [name |-> module_name, origin |-> rp, loader |-> "file"]
                id == Len(hp) + 1
                r == exec_module(spec, EmptyAttrs,
                                 CachePut(mods, module_name, id), id)
            IN [outcome |-> r.outcome,
                unit |-> IF r.outcome = "ok" THEN id ELSE 0,
                modules |-> IF r.outcome = "ok"
                            THEN CachePut(mods, module_name, id)
                            ELSE mods,
                heap |-> Append(hp, [NewUnit(module_name, spec)
                                        EXCEPT !.attrs = r.attrs]),
                executed |-> r.executed]

\* import_from_file with the cache entry made after the content has run
import_from_file_lazy(mods, hp, module_name, file_path) ==
    LET rp == Resolve(file_path).parts
    IN IF ~Exists(rp) THEN Failed("FileNotFoundError", mods, hp)
       ELSE IF ~EndsWith(PathName(Resolve(file_path)), PY_SUFFIX)
       THEN Failed("ImportError", mods, hp)
       ELSE LET spec == [name |-> module_name, origin |-> rp, loader |-> "file"]
                id == Len(hp) + 1
                r == exec_module(spec, EmptyAttrs, mods, id)
            IN [outcome |-> r.outcome,
                unit |-> IF r.outcome = "ok" THEN id ELSE 0,
                modules |-> CachePut(mods, module_name, id),
                heap |-> Append(hp, [NewUnit(module_name, spec)
                                        EXCEPT !.attrs = r.attrs]),
                executed |-> r.executed]

\* import_from_file(module_name, file_path)
import_from_file(mods, hp, module_name, file_path) ==
    LET rp == Resolve(file_path).parts
    IN IF ~Exists(rp) THEN Failed("FileNotFoundError", mods, hp)
       ELSE IF ~EndsWith(PathName(Resolve(file_path)), PY_SUFFIX)
       THEN Failed("ImportError", mods, hp)
       ELSE LET spec == [name |-> module_name, origin |-> rp, loader |-> "file"]
                id == Len(hp) + 1
                r == exec_module(spec, EmptyAttrs,
                                 CachePut(mods, module_name, id), id)
            IN [outcome |-> r.outcome,
                unit |-> IF r.outcome = "ok" THEN id ELSE 0,
                modules |-> CachePut(mods, module_name, id),
                heap |-> Append(hp, [NewUnit(module_name, spec)
                                        EXCEPT !.attrs = r.attrs]),
                executed |-> r.executed]

\* import_by_name that does not look into sys.modules first
import_by_name_uncached(mods, hp, module_name) ==
    IF module_name = <<>> THEN Failed("ValueError", mods, hp)
    ELSE LET spec == FindSpec(meta_path, module_name)
         IN IF spec = NoSpec THEN Failed("ModuleNotFoundError", mods, hp)
            ELSE LET id == Len(hp) + 1
                     r == exec_module(spec, EmptyAttrs,
                                      CachePut(mods, module_name, id), id)
                 IN [outcome |-> r.outcome,
                     unit |-> IF r.outcome = "ok" THEN id ELSE 0,
                     modules |-> IF r.outcome = "ok"
                                 THEN CachePut(mods, module_name, id)
                                 ELSE mods,
                     heap |-> Append(hp, [NewUnit(module_name, spec)
                                             EXCEPT !.attrs = r.attrs]),
                     executed |-> r.executed]

\* import_by_name(module_name): importlib.import_module
import_by_name(mods, hp, module_name) ==
    IF module_name = <<>> THEN Failed("ValueError", mods, hp)
    ELSE IF module_name \in DOMAIN mods
    THEN [outcome |-> "ok", unit |-> mods[module_name], modules |-> mods,
          heap |-> hp, executed |-> FALSE]
    ELSE LET spec == FindSpec(meta_path, module_name)
         IN IF spec = NoSpec THEN Failed("ModuleNotFoundError", mods, hp)
            ELSE LET id == Len(hp) + 1
                     r == exec_module(spec, EmptyAttrs,
                                      CachePut(mods, module_name, id), id)
                 IN [outcome |-> r.outcome,
                     unit |-> IF r.outcome = "ok" THEN id ELSE 0,
                     modules |-> IF r.outcome = "ok"
                                 THEN CachePut(mods, module_name, id)
                                 ELSE CacheDel(CachePut(mods, module_name, id),
                                               module_name),
                     heap |-> Append(hp, [NewUnit(module_name, spec)
                                             EXCEPT !.attrs = r.attrs]),
                     executed |-> r.executed]

(***************************************************************************)
(* Plugin target parser and load_plugin.                                   *)
(***************************************************************************)
NoPath == [abs |-> FALSE, parts |-> <<>>]

\* the three branches with the reserved marker left out of the name derived
\* for a bare short name
ParseTarget_unmarked(target, plugin_dir) ==
    IF StartsWith(target, PATH_PREFIX)
    THEN LET p == PathOf(DropPrefix(target, Len(PATH_PREFIX)))
         IN [intent |-> "path", name |-> PLUGIN_MARKER \o PathStem(p),
             path |-> p]
    ELSE IF StartsWith(target, NAME_PREFIX)
    THEN [intent |-> "name", name |-> DropPrefix(target, Len(NAME_PREFIX)),
          path |-> NoPath]
    ELSE [intent |-> "plugin", name |-> target,
          path |-> PathJoin(Resolve(plugin_dir), PathOf(target \o PY_SUFFIX))]

\* the three branches of load_plugin: intent, logical name, file to load
ParseTarget(target, plugin_dir) ==
    IF StartsWith(target, PATH_PREFIX)
    THEN LET p == PathOf(DropPrefix(target, Len(PATH_PREFIX)))
         IN [intent |-> "path", name |-> PLUGIN_MARKER \o PathStem(p),
             path |-> p]
    ELSE IF StartsWith(target, NAME_PREFIX)
    THEN [intent |-> "name", name |-> DropPrefix(target, Len(NAME_PREFIX)),
          path |-> NoPath]
    ELSE [intent |-> "plugin", name |-> PLUGIN_MARKER \o target,
          path |-> PathJoin(Resolve(plugin_dir), PathOf(target \o PY_SUFFIX))]

\* load_plugin(target, plugin_dir) -> (module, label)
load_plugin(mods, hp, target, plugin_dir) ==
    LET t == ParseTarget(target, plugin_dir)
        r == IF t.intent = "name"
             THEN import_by_name(mods, hp, t.name)
             ELSE import_from_file(mods, hp, t.name, t.path)
    IN [outcome |-> r.outcome, unit |-> r.unit, modules |-> r.modules,
        heap |-> r.heap, executed |-> r.executed,
        intent |-> t.intent, name |-> t.name,
        label |-> [kind |-> IF t.intent = "path" THEN "file" ELSE t.intent,
                   ref |-> IF t.intent = "name" THEN <<t.name>>
                           ELSE Resolve(t.path).parts,
                   reloaded |-> FALSE]]

(***************************************************************************)
(* Reload: importlib.reload(module) as main() calls it.                    *)
(***************************************************************************)
\* a reload that executes the content against a fresh attribute mapping
reload_fresh(mods, hp, id) ==
    LET name == IF hp[id].spec # NoSpec THEN hp[id].spec.name ELSE hp[id].name
    IN IF name \notin DOMAIN mods \/ mods[name] # id
       THEN Failed("ImportError", mods, hp)
       ELSE LET spec == FindSpec(meta_path, name)
            IN IF spec = NoSpec
               THEN [outcome |-> "ModuleNotFoundError", unit |-> 0,
                     modules |-> mods,
                     heap |-> [hp EXCEPT ![id].spec = NoSpec],
                     executed |-> FALSE]
               ELSE LET r == exec_module(spec, EmptyAttrs, mods, id)
                    IN [outcome |-> r.outcome,
                        unit |-> IF r.outcome = "ok" THEN mods[name] ELSE 0,
                        modules |-> mods,
                        heap |-> [hp EXCEPT ![id].spec = spec,
                                            ![id].attrs = r.attrs],
                        executed |-> r.executed]

\* importlib.reload: the chain is asked again for the module's name, the
\* module's __spec__ is overwritten with the answer, and the content found is
\* executed against the module's existing attribute mapping
reload(mods, hp, id) ==
    LET name == IF hp[id].spec # NoSpec THEN hp[id].spec.name ELSE hp[id].name
    IN IF name \notin DOMAIN mods \/ mods[name] # id
       THEN Failed("ImportError", mods, hp)
       ELSE LET spec == FindSpec(meta_path, name)
            IN IF spec = NoSpec
               THEN [outcome |-> "ModuleNotFoundError", unit |-> 0,
                     modules |-> mods,
                     heap |-> [hp EXCEPT ![id].spec = NoSpec],
                     executed |-> FALSE]
               ELSE LET r == exec_module(spec, hp[id].attrs, mods, id)
                    IN [outcome |-> r.outcome,
                        unit |-> IF r.outcome = "ok" THEN mods[name] ELSE 0,
                        modules |-> mods,
                        heap |-> [hp EXCEPT ![id].spec = spec,
                                            ![id].attrs = r.attrs],
                        executed |-> r.executed]

(***************************************************************************)
(* Invocation adapter: call_plugin.                                        *)
(***************************************************************************)
IntResult(i) == [t |-> "int", i |-> i]
NoneResult == [t |-> "none", i |-> 0]
StrResult(i) == [t |-> "str", i |-> i]
BadStrResult == [t |-> "badstr", i |-> 0]

\* the entry points a plugin may define: how many positional arguments the
\* function accepts, what its body does, and what it returns
EntryPoint(arity, body, result) ==
    [arity |-> arity, body |-> body, result |-> result]

EntryPoints ==
    [mainOne |-> EntryPoint("one", "return", IntResult(5)),
     mainZero |-> EntryPoint("zero", "return", IntResult(260)),
     mainAny |-> EntryPoint("any", "return", IntResult(6)),
     mainAnyNone |-> EntryPoint("any", "return", NoneResult),
     mainOneNone |-> EntryPoint("one", "return", NoneResult),
     mainOneTypeErr |-> EntryPoint("one", "TypeError", NoneResult),
     mainAnyTypeErr |-> EntryPoint("any", "TypeError", NoneResult),
     mainZeroTypeErr |-> EntryPoint("zero", "TypeError", NoneResult),
     mainOneValueErr |-> EntryPoint("one", "ValueError", NoneResult),
     mainZeroStr |-> EntryPoint("zero", "return", StrResult(7)),
     mainOneBadStr |-> EntryPoint("one", "return", BadStrResult),
     mainTwo |-> EntryPoint("two", "return", IntResult(8))]

Accepts(arity, nargs) ==
    \/ arity = "any"
    \/ arity = "one" /\ nargs = 1
    \/ arity = "zero" /\ nargs = 0

\* int(x)
ToInt(result) ==
    IF result.t \in {"int", "str"} THEN [exc |-> "", status |-> result.i]
    ELSE IF result.t = "none" THEN [exc |-> "TypeError", status |-> 0]
    ELSE [exc |-> "ValueError", status |-> 0]

\* int(fn(*args)): the call is rejected with TypeError before the body runs
\* when the argument count does not fit
CallInt(fn, nargs) ==
    LET f == EntryPoints[fn]
    IN IF ~Accepts(f.arity, nargs)
       THEN [exc |-> "TypeError", status |-> 0, entered |-> FALSE]
       ELSE IF f.body # "return"
       THEN [exc |-> f.body, status |-> 0, entered |-> TRUE]
       ELSE [exc |-> ToInt(f.result).exc, status |-> ToInt(f.result).status,
             entered |-> TRUE]

CallEvent(how, argv, r) == [how |-> how, argv |-> argv, entered |-> r.entered]

\* call_plugin without the retry: a TypeError of the first call propagates
call_plugin_noretry(attrs, argv) ==
    IF attrs["main"] = Absent
    THEN [outcome |-> "AttributeError", status |-> 0, calls |-> <<>>]
    ELSE LET first == CallInt(attrs["main"], 1)
         IN [outcome |-> IF first.exc = "" THEN "ok" ELSE first.exc,
             status |-> first.status,
             calls |-> <<CallEvent("args", argv, first)>>]

\* call_plugin without the hasattr test, reading the entry point with
\* getattr(module, "main", None): a missing entry point is called like any
\* other value and both calls are rejected
call_plugin_unchecked(attrs, argv) ==
    IF attrs["main"] = Absent
    THEN [outcome |-> "TypeError", status |-> 0,
          calls |-> <<[how |-> "args", argv |-> argv, entered |-> FALSE],
                      [how |-> "noargs", argv |-> <<>>, entered |-> FALSE]>>]
    ELSE LET fn == attrs["main"]
             first == CallInt(fn, 1)
             second == CallInt(fn, 0)
         IN IF first.exc = ""
            THEN [outcome |-> "ok", status |-> first.status,
                  calls |-> <<CallEvent("args", argv, first)>>]
            ELSE IF first.exc = "TypeError"
            THEN [outcome |-> IF second.exc = "" THEN "ok" ELSE second.exc,
                  status |-> second.status,
                  calls |-> <<CallEvent("args", argv, first),
                              CallEvent("noargs", <<>>, second)>>]
            ELSE [outcome |-> first.exc, status |-> 0,
                  calls |-> <<CallEvent("args", argv, first)>>]

\* call_plugin(module, argv)
call_plugin(attrs, argv) ==
    IF attrs["main"] = Absent
    THEN [outcome |-> "AttributeError", status |-> 0, calls |-> <<>>]
    ELSE LET fn == attrs["main"]
             first == CallInt(fn, 1)
             second == CallInt(fn, 0)
         IN IF first.exc = ""
            THEN [outcome |-> "ok", status |-> first.status,
                  calls |-> <<CallEvent("args", argv, first)>>]
            ELSE IF first.exc = "TypeError"
            THEN [outcome |-> IF second.exc = "" THEN "ok" ELSE second.exc,
                  status |-> second.status,
                  calls |-> <<CallEvent("args", argv, first),
                              CallEvent("noargs", <<>>, second)>>]
            ELSE [outcome |-> first.exc, status |-> 0,
                  calls |-> <<CallEvent("args", argv, first)>>]

(***************************************************************************)
(* Process exit: raise SystemExit(main()).                                 *)
(***************************************************************************)
\* an exit code that is 0 when main() raised
ExitCode_zero(outcome, status) ==
    IF outcome = "ok" THEN status % 256 ELSE 0

\* the exit code of the process: the operating system keeps the low 8 bits
\* of the status main() returned; an exception that leaves main() ends the
\* process with code 1
ExitCode(outcome, status) ==
    IF outcome = "ok" THEN status % 256 ELSE 1

(***************************************************************************)
(* Inputs: target strings, plugin directories, argument lists.             *)
(***************************************************************************)
MaxArgs == 2

\* "h"
TargetH ==
    <<"h">>
\* "g"
TargetG ==
    <<"g">>
\* "/q/h"
TargetAbsQH ==
    <<"/", "q", "/", "h">>
\* "path:/q/h.py"
TargetPathQH ==
    <<"p", "a", "t", "h", ":", "/", "q", "/", "h", ".", "p", "y">>
\* "path:name:j"
TargetPathName ==
    <<"p", "a", "t", "h", ":", "n", "a", "m", "e", ":", "j">>
\* "name:j"
TargetNameJ ==
    <<"n", "a", "m", "e", ":", "j">>
\* "name:k"
TargetNameK ==
    <<"n", "a", "m", "e", ":", "k">>
\* "name:__plugin__h"
TargetNamePH ==
    <<"n", "a", "m", "e", ":", "_", "_", "p", "l", "u", "g", "i", "n", "_", "_", "h">>
\* "name:demo_hook"
TargetNameDemo ==
    <<"n", "a", "m", "e", ":", "d", "e", "m", "o", "_", "h", "o", "o", "k">>

Targets == {TargetH, TargetG, TargetAbsQH, TargetPathQH, TargetPathName,
            TargetNameJ, TargetNameK, TargetNamePH, TargetNameDemo}

\* --plugin-dir: "/p" and "/q"
PluginDirs == {<<"/", "p">>, <<"/", "q">>}

ArgWords == {"x", "y"}
ArgLists == UNION {[1..n -> ArgWords] : n \in 0..MaxArgs}

\* the argument lists the run command is given in the model
RunArgLists == {<<"x", "y">>}

(***************************************************************************)
(* Initial state: an empty unit cache, the built-in finder only.           *)
(***************************************************************************)
NoLabel == [kind |-> "none", ref |-> <<>>, reloaded |-> FALSE]

\* the record of the latest operation: which operation, its inputs, what
\* load_plugin derived from the target, the unit cached under the name before
\* the operation (prev, 0: none) and the file it came from (porigin), the
\* outcome ("ok" or the exception raised),
\* the unit returned, whether content was executed, for call_plugin the
\* status returned and the calls made to the entry point, and for
\* find_spec_origin the descriptor found, for list_plugins the list returned,
\* and the exit code when the operation ended the process (-1: it goes on)
NoOp ==
    [op |-> "init", target |-> <<>>, dir |-> <<>>, intent |-> "",
     name |-> <<>>, path |-> <<>>, prev |-> 0, outcome |-> "", unit |-> 0,
     executed |-> FALSE, status |-> 0, calls |-> <<>>, argv |-> <<>>,
     spec |-> NoSpec, listing |-> <<>>, exit |-> -1, porigin |-> <<>>]

CachedUnit(mods, name) == IF name \in DOMAIN mods THEN mods[name] ELSE 0

InitFs ==
    [f \in Files |->
        IF f = FilePH THEN FileOf(ContentOne)
        ELSE IF f = FilePG THEN FileOf(ContentBad)
        ELSE IF f = FileQH THEN FileOf(ContentZero)
        ELSE IF f = FileQG THEN Unreadable
        ELSE IF f = FileSJ THEN FileOf(ContentZero)
        ELSE IF f = FileSK THEN FileOf(ContentBad)
        ELSE Missing]

Init ==
    /\ fs = InitFs
    /\ meta_path = <<"PathFinder">>
    /\ modules = <<>>
    /\ heap = <<>>
    /\ pc = "idle"
    /\ cur = 0
    /\ label = NoLabel
    /\ edits = 0
    /\ last = NoOp

(***************************************************************************)
(* Actions.                                                                *)
(***************************************************************************)
\* main(): module, label = load_plugin(target, plugin_dir); an exception
\* ends the run; max bounds the number of module objects ever created
LoadPluginUpTo(target, plugin_dir, max) ==
    \E r \in {load_plugin(modules, heap, target, PathOf(plugin_dir))} :
       /\ Len(r.heap) <= max
       /\ modules' = r.modules
       /\ heap' = Sweep(r.heap, r.modules, {r.unit})
       /\ pc' = IF r.outcome = "ok" THEN "loaded" ELSE "idle"
       /\ cur' = r.unit
       /\ label' = IF r.outcome = "ok" THEN r.label ELSE NoLabel
       /\ last' = [NoOp EXCEPT !.op = "load", !.target = target,
                                !.dir = IF r.intent = "plugin"
                                        THEN plugin_dir ELSE <<>>,
                                !.intent = r.intent,
                                !.name = r.name, !.path = r.label.ref,
                                !.prev = CachedUnit(modules, r.name),
                                !.porigin =
                                    IF r.name \in DOMAIN modules
                                    THEN heap[modules[r.name]].spec.origin
                                    ELSE <<>>,
                                !.outcome = r.outcome, !.unit = r.unit,
                                !.executed = r.executed,
                                !.exit = IF r.outcome = "ok" THEN -1
                                         ELSE ExitCode(r.outcome, 0)]
       /\ UNCHANGED <<fs, meta_path, edits>>

LoadPlugin(target, plugin_dir) == LoadPluginUpTo(target, plugin_dir, MaxUnits)

\* main(): if args.reload: try importlib.reload(module) except: print warning
MaybeReload(flag) ==
    /\ pc = "loaded"
    /\ pc' = "ready"
    /\ IF flag
       THEN \E r \in {reload(modules, heap, cur)} :
               /\ modules' = r.modules
               /\ heap' = Sweep(r.heap, r.modules, {cur, r.unit})
               /\ cur' = IF r.outcome = "ok" THEN r.unit ELSE cur
               /\ label' = IF r.outcome = "ok"
                           THEN [label EXCEPT !.reloaded = TRUE]
                           ELSE label
               /\ last' = [NoOp EXCEPT !.op = "reload",
                                        !.name = heap[cur].name,
                                        !.prev = CachedUnit(modules,
                                                            heap[cur].name),
                                        !.outcome = r.outcome,
                                        !.unit = r.unit,
                                        !.executed = r.executed]
       ELSE /\ UNCHANGED <<modules, cur, label>>
            /\ heap' = Sweep(heap, modules, {cur})
            /\ last' = [NoOp EXCEPT !.op = "noreload",
                                     !.name = heap[cur].name]
    /\ UNCHANGED <<fs, meta_path, edits>>

\* main(): return call_plugin(module, plugin_argv); main's locals end here
CallPlugin(argv) ==
    /\ pc = "ready"
    /\ \E r \in {call_plugin(heap[cur].attrs, argv)} :
          last' = [NoOp EXCEPT !.op = "call", !.name = heap[cur].name,
                                !.outcome = r.outcome, !.unit = cur,
                                !.status = r.status, !.calls = r.calls,
                                !.argv = argv,
                                !.exit = ExitCode(r.outcome, r.status)]
    /\ pc' = "idle"
    /\ cur' = 0
    /\ label' = NoLabel
    /\ UNCHANGED <<fs, meta_path, modules, heap, edits>>

\* the environment rewrites, removes or protects a source file
EditChoices ==
    {<<FileSJ, FileOf(ContentOne)>>, <<FileSJ, FileOf(ContentBad)>>}

EditFile(f, v) ==
    /\ edits < MaxEdits
    /\ <<f, v>> \in EditChoices
    /\ fs[f] # v
    /\ fs' = [fs EXCEPT ![f] = v]
    /\ edits' = edits + 1
    /\ last' = [NoOp EXCEPT !.op = "edit"]
    /\ heap' = Sweep(heap, modules, {cur})
    /\ UNCHANGED <<meta_path, modules, pc, cur, label>>

\* import_hook_demo.main(): sys.meta_path.insert(0, DemoFinder())
InstallFinder ==
    /\ Len(meta_path) < MaxFinders
    /\ meta_path' = <<"DemoFinder">> \o meta_path
    /\ last' = [NoOp EXCEPT !.op = "install"]
    /\ heap' = Sweep(heap, modules, {cur})
    /\ UNCHANGED <<fs, modules, pc, cur, label, edits>>

\* the module names --where is asked about: "j", "__plugin__h", "demo_hook"
WhereNames == {<<"j">>, PLUGIN_MARKER \o <<"h">>, DEMO_HOOK}

\* main(): origin = find_spec_origin(args.where)
Where(name) ==
    \E r \in {find_spec_origin(modules, heap, name)} :
       /\ last' = [NoOp EXCEPT !.op = "where", !.name = name,
                                !.outcome = r.outcome, !.spec = r.spec,
                                !.path = r.text,
                                !.exit = IF r.outcome = "ok" THEN -1
                                         ELSE ExitCode(r.outcome, 0)]
       /\ heap' = Sweep(heap, modules, {cur})
       /\ UNCHANGED <<fs, meta_path, modules, pc, cur, label, edits>>

Next ==
    \/ \E t \in Targets, d \in PluginDirs : LoadPlugin(t, d)
    \/ \E flag \in BOOLEAN : MaybeReload(flag)
    \/ \E argv \in RunArgLists : CallPlugin(argv)
    \/ \E c \in EditChoices : EditFile(c[1], c[2])
    \/ InstallFinder

Spec == Init /\ [][Next]_vars

(***************************************************************************)
(* call_plugin on its own: a loaded unit whose entry point is any of the   *)
(* entry points above (or is absent), invoked with any argument list.      *)
(***************************************************************************)
CallUnitName == PLUGIN_MARKER \o <<"h">>

InitCall ==
    /\ fs = InitFs
    /\ meta_path = <<"PathFinder">>
    /\ \E m \in (DOMAIN EntryPoints) \cup {Absent} :
          heap = <<[NewUnit(CallUnitName,
                            [name |-> CallUnitName, origin |-> FilePH,
                             loader |-> "file"])
                      EXCEPT !.attrs["main"] = m]>>
    /\ modules = CachePut(<<>>, CallUnitName, 1)
    /\ pc = "ready"
    /\ cur = 1
    /\ label = [kind |-> "plugin", ref |-> FilePH, reloaded |-> FALSE]
    /\ edits = 0
    /\ last = [NoOp EXCEPT !.op = "noreload", !.name = CallUnitName]

NextCall == \E argv \in ArgLists : CallPlugin(argv)

SpecCall == InitCall /\ [][NextCall]_vars

(***************************************************************************)
(* Resolution: find_spec_origin interleaved with loads, reloads and the    *)
(* registration of the demo finder, with and without a file demo_hook.py   *)
(* that the path based finder would find.                                  *)
(***************************************************************************)
ResolveTargets == {TargetH, TargetPathQH, TargetNameJ, TargetNameDemo}

InitResolve ==
    /\ fs \in {InitFs, [InitFs EXCEPT ![FileSD] = FileOf(ContentNoMain)]}
    /\ meta_path = <<"PathFinder">>
    /\ modules = <<>>
    /\ heap = <<>>
    /\ pc = "idle"
    /\ cur = 0
    /\ label = NoLabel
    /\ edits = 0
    /\ last = NoOp

NextResolve ==
    \/ \E n \in WhereNames : Where(n)
    \/ \E t \in ResolveTargets, d \in PluginDirs :
          LoadPluginUpTo(t, d, MaxCollideUnits)
    \/ \E flag \in BOOLEAN : MaybeReload(flag)
    \/ InstallFinder

SpecResolve == InitResolve /\ [][NextResolve]_vars

(***************************************************************************)
(* list_plugins on its own: a directory /l whose entries are, each, a      *)
(* file, a directory or missing; the directory listed is /l, the missing   *)
(* /z, or the entry /l/a.py.                                               *)
(***************************************************************************)
\* "a.py", "b.py", "B.py", "_c.py", "d.py", "n.txt"
ListNames ==
    {<<"a", ".", "p", "y">>, <<"b", ".", "p", "y">>, <<"B", ".", "p", "y">>,
     <<"_", "c", ".", "p", "y">>, <<"d", ".", "p", "y">>,
     <<"n", ".", "t", "x", "t">>}
ListFiles == {DirL \o <<n>> : n \in ListNames}

\* "/l", "/z", "/l/a.py"
ListDirs == {<<"/", "l">>, <<"/", "z">>, <<"/", "l", "/", "a", ".", "p", "y">>}

InitList ==
    /\ fs \in [ListFiles -> {Missing, FileOf(<<>>), Directory}]
    /\ meta_path = <<"PathFinder">>
    /\ modules = <<>>
    /\ heap = <<>>
    /\ pc = "idle"
    /\ cur = 0
    /\ label = NoLabel
    /\ edits = 0
    /\ last = NoOp

\* main(): plugs = list_plugins(plugin_dir)
ListPlugins(plugin_dir) ==
    /\ pc = "idle"
    /\ last' = [NoOp EXCEPT !.op = "list", !.dir = plugin_dir,
                             !.outcome = "ok",
                             !.listing = list_plugins(PathOf(plugin_dir))]
    /\ heap' = Sweep(heap, modules, {cur})
    /\ UNCHANGED <<fs, meta_path, modules, pc, cur, label, edits>>

NextList == \E d \in ListDirs : ListPlugins(d)

SpecList == InitList /\ [][NextList]_vars

(***************************************************************************)
(* Successive loads in one interpreter: every target that names a file, *)
(* among them /p/h.py and /q/h.py that are both loaded as __plugin__h, so  *)
(* that several units are cached side by side and under shared names.      *)
(***************************************************************************)
CollideTargets == Targets \ {TargetNameDemo}

NextCollide ==
    \E t \in CollideTargets, d \in PluginDirs :
        LoadPluginUpTo(t, d, MaxCollideUnits)

SpecCollide == Init /\ [][NextCollide]_vars

(***************************************************************************)
(* Properties.                                                             *)
(***************************************************************************)
IsLoad(op) == op.op = "load"
FileIntent(op) == op.intent \in {"path", "plugin"}

\* C1 as stated: two successive successful loads of one logical name, for
\* every kind of target, return the same unit, the second load executes no
\* content, and the cache entry is the same object after both.
C1_AtMostOneLoad ==
    [][(/\ IsLoad(last) /\ last.outcome = "ok"
        /\ IsLoad(last') /\ last'.outcome = "ok"
        /\ last'.name = last.name)
       => (/\ last'.unit = last.unit
           /\ ~last'.executed
           /\ modules'[last'.name] = modules[last.name])]_vars

\* C1 amended: a successful load of a name that is already cached returns
\* the cached unit, executes nothing and leaves the cache as it is when the
\* target is a name: target; when the target is a bare short name or a path:
\* target it creates a new unit, executes the content again and installs the
\* new unit in place of the cached one.
C1_LoadOfCachedName ==
    [][(/\ IsLoad(last') /\ last'.outcome = "ok"
        /\ last'.name \in DOMAIN modules)
       => IF last'.intent = "name"
          THEN /\ last'.unit = modules[last'.name]
               /\ ~last'.executed
               /\ modules' = modules
          ELSE /\ last'.unit = Len(heap) + 1
               /\ last'.unit # modules[last'.name]
               /\ last'.executed
               /\ modules'[last'.name] = last'.unit]_vars

\* a name: load that found its name cached
C1_Witness ==
    /\ IsLoad(last) /\ last.outcome = "ok"
    /\ last.intent = "name"
    /\ last.prev # 0
    /\ last.unit = last.prev

\* C2 as stated: a failed reload leaves the cached unit the same object with
\* exactly the attributes it had, and the run goes on to invoke that unit.
C2_FailedReloadKeepsUnit ==
    [][(last'.op = "reload" /\ last'.outcome # "ok")
       => (/\ modules' = modules
           /\ cur' = cur
           /\ pc' = "ready"
           /\ heap'[cur].attrs = heap[cur].attrs)]_vars

\* the attributes a program assigns before it stops
RECURSIVE AssignedBy(_)
AssignedBy(steps) ==
    IF steps = <<>> \/ Head(steps).op = "raise" THEN {}
    ELSE {Head(steps).attr} \cup AssignedBy(Tail(steps))

\* the program a spec stands for
ContentOf(spec) ==
    IF spec.loader = "demo" THEN DemoContent ELSE fs[spec.origin].data

MainOf(unit) == heap[unit].attrs["main"]

\* C4 as stated: the zero-argument retry happens only when the call with
\* args was rejected for its argument count, that is before the entry point
\* was entered; a call that entered the entry point is never followed by a
\* second call.
C4_RetryOnlyOnArityMismatch ==
    (last.op = "call" /\ last.calls # <<>> /\ last.calls[1].entered)
        => Len(last.calls) = 1

\* C5: an entry point that accepts one argument and returns a value int()
\* accepts is called exactly once, with the args list, and call_plugin
\* returns the integer value of its result; an entry point that accepts no
\* argument and returns such a value ends up being called with no arguments,
\* is entered exactly once, and call_plugin returns the integer value of its
\* result without raising.
C5_CallingConvention ==
    (/\ last.op = "call"
     /\ MainOf(last.unit) # Absent
     /\ EntryPoints[MainOf(last.unit)].arity \in {"one", "any", "zero"}
     /\ EntryPoints[MainOf(last.unit)].body = "return"
     /\ EntryPoints[MainOf(last.unit)].result.t \in {"int", "str"})
        => LET f == EntryPoints[MainOf(last.unit)]
               n == Len(last.calls)
           IN /\ last.outcome = "ok"
              /\ last.status = f.result.i
              /\ f.arity \in {"one", "any"}
                    => last.calls = <<[how |-> "args", argv |-> last.argv,
                                       entered |-> TRUE]>>
              /\ f.arity = "zero"
                    => /\ last.calls[n] = [how |-> "noargs", argv |-> <<>>,
                                           entered |-> TRUE]
                       /\ Cardinality({i \in 1..n : last.calls[i].entered}) = 1

\* a zero-argument entry point invoked with two arguments
C5_Witness ==
    /\ last.op = "call"
    /\ MainOf(last.unit) = "mainZero"
    /\ last.argv = <<"x", "y">>
    /\ last.outcome = "ok"
    /\ last.status = 260

\* C6 as stated: a load that fails because the source is missing or cannot
\* be read leaves the unit cache exactly as it was.
C6_FailedLoadKeepsCache ==
    [][(/\ IsLoad(last')
        /\ last'.outcome \in {"FileNotFoundError", "ModuleNotFoundError",
                              "OSError"})
       => modules' = modules]_vars

\* the attributes of a unit are exactly those the content of its spec
\* assigns before it raises
PartiallyPopulated(unit) ==
    \A a \in AttrNames :
        (unit.attrs[a] # Absent) <=> (a \in AssignedBy(ContentOf(unit.spec)))

\* C7 as stated: when executing the content raises during a load, the
\* partially populated unit is cached under its logical name afterwards, on
\* every load path.
C7_PartialUnitStaysCached ==
    [][(IsLoad(last') /\ last'.outcome = "RuntimeError")
       => (/\ last'.name \in DOMAIN modules'
           /\ modules'[last'.name] = Len(heap) + 1
           /\ PartiallyPopulated(heap'[modules'[last'.name]]))]_vars

\* C7 amended: when executing the content raises during a load by bare short
\* name or by path:, the partially populated unit is cached under its logical
\* name afterwards; when it raises during a name: load, the unit is removed
\* again and the cache has no entry under that name, as before the load.
C7_PartialUnitByIntent ==
    [][(IsLoad(last') /\ last'.outcome = "RuntimeError")
       => IF FileIntent(last')
          THEN /\ last'.name \in DOMAIN modules'
               /\ modules'[last'.name] = Len(heap) + 1
               /\ PartiallyPopulated(heap'[modules'[last'.name]])
          ELSE /\ modules' = modules
               /\ last'.name \notin DOMAIN modules']_vars

\* a file based load whose content raised after assigning VALUE
C7_Witness ==
    /\ IsLoad(last) /\ last.outcome = "RuntimeError"
    /\ FileIntent(last)
    /\ last.name \in DOMAIN modules
    /\ heap[modules[last.name]].attrs["VALUE"] = "3"
    /\ heap[modules[last.name]].attrs["main"] = Absent

\* C8: call_plugin on a unit without a main attribute fails with the missing
\* entry point error (AttributeError), calls nothing, and leaves the unit
\* cache and the units unchanged.
C8_MissingEntryPoint ==
    [][(last'.op = "call" /\ MainOf(cur) = Absent)
       => (/\ last'.outcome = "AttributeError"
           /\ last'.calls = <<>>
           /\ modules' = modules
           /\ heap' = heap)]_vars

\* a cached unit without entry point has been invoked
C8_Witness ==
    /\ last.op = "call"
    /\ last.outcome = "AttributeError"
    /\ last.name \in DOMAIN modules
    /\ modules[last.name] = last.unit
    /\ MainOf(last.unit) = Absent

\* C9 as stated: loads through different intents or from different physical
\* files never share a cache slot: whenever a successful load finds a unit
\* cached under its logical name, that unit came from the same file through
\* a file based load, or, for a name: load, from the resolver chain.
C9_NoCollision ==
    [][(/\ IsLoad(last') /\ last'.outcome = "ok"
        /\ last'.name \in DOMAIN modules
        /\ heap[modules[last'.name]].spec # NoSpec)
       => LET occupant == heap[modules[last'.name]].spec
          IN IF FileIntent(last')
             THEN occupant.loader = "file" /\ occupant.origin = last'.path
             ELSE occupant.loader # "file"]_vars

\* C9 amended: a load by explicit path or by convention directory uses the
\* reserved marker followed by the file stem (the bare target), a name: load
\* uses the name verbatim, so the two differ unless the registered name
\* itself starts with the marker; a load never touches a cache entry under a
\* logical name other than its own.  Loads that derive the same logical name
\* do share one slot.
C9_NamesAndSlots ==
    [][IsLoad(last')
       => (/\ last'.intent = "path"
              => last'.name = PLUGIN_MARKER
                    \o PathStem(PathOf(DropPrefix(last'.target,
                                                  Len(PATH_PREFIX))))
           /\ last'.intent = "plugin"
              => last'.name = PLUGIN_MARKER \o last'.target
           /\ last'.intent = "name"
              => last'.name = DropPrefix(last'.target, Len(NAME_PREFIX))
           /\ \A n \in DOMAIN modules :
                 n # last'.name
                 => n \in DOMAIN modules' /\ modules'[n] = modules[n])]_vars

\* a file based load next to an entry cached under another logical name
C9_Witness ==
    /\ IsLoad(last) /\ last.outcome = "ok"
    /\ FileIntent(last)
    /\ \E n \in DOMAIN modules : n # last.name /\ modules[n] # last.unit

\* C10 as stated: "path:" + P resolves the explicit path P whatever the
\* base directory; otherwise "name:" + N resolves the registered name N;
\* every other target T resolves the file baseDir/T.py.
C10_TargetParsing ==
    IsLoad(last)
        => IF StartsWith(last.target, PATH_PREFIX)
           THEN /\ last.intent = "path"
                /\ last.path =
                      Resolve(PathOf(DropPrefix(last.target,
                                                Len(PATH_PREFIX)))).parts
           ELSE IF StartsWith(last.target, NAME_PREFIX)
           THEN /\ last.intent = "name"
                /\ last.name = DropPrefix(last.target, Len(NAME_PREFIX))
           ELSE /\ last.intent = "plugin"
                /\ last.path =
                      Resolve(PathOf(last.dir \o <<"/">> \o last.target
                                        \o PY_SUFFIX)).parts

\* the answer of the frontmost finder of a chain that recognizes the name
FirstHit(chain, name) ==
    LET hits == {i \in 1..Len(chain) : FinderSpec(chain[i], name) # NoSpec}
    IN IF hits = {} THEN NoSpec
       ELSE FinderSpec(chain[CHOOSE i \in hits : \A j \in hits : i <= j], name)

\* the names resolution is checked for: those of WhereNames and "k"
ChainNames == WhereNames \cup {<<"k">>}

\* C11: the chain is consulted front to back and the frontmost finder that
\* returns a descriptor wins; registering the demo finder puts it at the
\* front, after which it answers its own name whatever the finders behind
\* it would answer, and every other name gets the answer it got without it;
\* a resolution and a load by name of a name that is not cached use that
\* answer.
C11_FirstMatchWins ==
    [][\A n \in ChainNames :
          /\ FindSpec(meta_path', n) = FirstHit(meta_path', n)
          /\ last'.op = "install"
                => /\ meta_path' = <<"DemoFinder">> \o meta_path
                   /\ FindSpec(meta_path', n) =
                         IF n = DEMO_HOOK
                         THEN [name |-> n, origin |-> <<>>, loader |-> "demo"]
                         ELSE FindSpec(meta_path, n)
          /\ (last'.op = "where" /\ last'.name = n /\ n \notin DOMAIN modules)
                => last'.spec = FirstHit(meta_path, n)
          /\ (/\ IsLoad(last') /\ last'.intent = "name" /\ last'.name = n
              /\ n \notin DOMAIN modules /\ last'.outcome = "ok")
                => heap'[last'.unit].spec = FirstHit(meta_path, n)]_vars

\* the demo finder answered for its name although the path based finder
\* behind it finds a file of that name
C11_Witness ==
    /\ last.op = "where" /\ last.name = DEMO_HOOK
    /\ DEMO_HOOK \notin DOMAIN modules
    /\ last.spec.loader = "demo"
    /\ PathFinderSpec(DEMO_HOOK) # NoSpec
    /\ Head(meta_path) = "DemoFinder"

\* what resolving a name yields in the current state: the outcome, and the
\* logical name and origin of the descriptor
Descriptor(name) ==
    LET r == find_spec(modules, heap, name)
    IN [outcome |-> r.outcome, name |-> r.spec.name, origin |-> r.spec.origin]

DescriptorOf(outcome, spec) ==
    [outcome |-> outcome, name |-> spec.name, origin |-> spec.origin]

\* C12 as stated: as long as no finder is registered or removed, every name
\* resolves to the same descriptor before and after every step, loads of
\* that or another name included.
C12_ResolutionPure ==
    [][meta_path' = meta_path
       => \A n \in WhereNames : Descriptor(n)' = Descriptor(n)]_vars

\* C12 amended: with the chain unchanged, a name that is not cached before
\* and after a step resolves to the same descriptor (the chain's answer), and
\* so does a name whose cache entry and whose unit's descriptor the step
\* leaves alone; a name that is cached resolves to the descriptor recorded
\* on the cached unit whatever the chain would answer, and resolving it
\* fails when the unit has none; find_spec_origin returns exactly that.
C12_ResolutionByCache ==
    [][meta_path' = meta_path
       => \A n \in WhereNames :
             /\ (last'.op = "where" /\ last'.name = n)
                   => DescriptorOf(last'.outcome, last'.spec) = Descriptor(n)
             /\ (n \notin DOMAIN modules /\ n \notin DOMAIN modules')
                   => Descriptor(n)' = Descriptor(n)
             /\ (/\ n \in DOMAIN modules /\ n \in DOMAIN modules'
                 /\ modules'[n] = modules[n]
                 /\ heap'[modules'[n]].spec = heap[modules[n]].spec)
                   => Descriptor(n)' = Descriptor(n)
             /\ n \in DOMAIN modules'
                   => Descriptor(n)' =
                         IF heap'[modules'[n]].spec = NoSpec
                         THEN DescriptorOf("ValueError", NoSpec)
                         ELSE DescriptorOf("ok", heap'[modules'[n]].spec)]_vars

\* a name the chain does not know resolved to the file a bare or path: load
\* cached under it
C12_Witness ==
    /\ last.op = "where" /\ last.name = PLUGIN_MARKER \o <<"h">>
    /\ last.outcome = "ok"
    /\ last.spec.loader = "file"
    /\ FindSpec(meta_path, last.name) = NoSpec

DemoInstalled == \E i \in 1..Len(meta_path) : meta_path[i] = "DemoFinder"

\* C13: before the demo finder is registered demo_hook is not in the cache;
\* once it is registered at the front, resolving demo_hook succeeds with the
\* demo finder's descriptor, loading it succeeds and yields a unit cached
\* under demo_hook whose VALUE is 123 and that has no entry point, and
\* invoking that unit fails with the missing entry point error without
\* calling anything.
C13_DemoEndToEnd ==
    /\ ~DemoInstalled => DEMO_HOOK \notin DOMAIN modules
    /\ DemoInstalled
          => FindSpec(meta_path, DEMO_HOOK) =
                [name |-> DEMO_HOOK, origin |-> <<>>, loader |-> "demo"]
    /\ (IsLoad(last) /\ last.name = DEMO_HOOK /\ DemoInstalled)
          => /\ last.outcome = "ok"
             /\ DEMO_HOOK \in DOMAIN modules
             /\ modules[DEMO_HOOK] = last.unit
             /\ heap[last.unit].name = DEMO_HOOK
             /\ heap[last.unit].attrs["VALUE"] = "123"
             /\ heap[last.unit].attrs["main"] = Absent
    /\ (last.op = "call" /\ last.name = DEMO_HOOK)
          => /\ last.outcome = "AttributeError"
             /\ last.calls = <<>>

\* the unit the demo finder produced has been loaded and invoked
C13_Witness ==
    /\ last.op = "call" /\ last.name = DEMO_HOOK
    /\ last.outcome = "AttributeError"
    /\ DEMO_HOOK \in DOMAIN modules
    /\ modules[DEMO_HOOK] = last.unit
    /\ heap[last.unit].attrs["VALUE"] = "123"

\* the name of the entry a listing item stands for
ItemName(item) == item.origin[Len(item.origin)]

\* C14 as stated: list_plugins returns exactly the source files of the
\* directory whose name ends with ".py" and does not begin with "_", one
\* item per file, named by the file's stem, in ascending order of file name,
\* and an empty list without error when the directory is empty or missing.
C14_ListsSourceFiles ==
    last.op = "list"
        => LET dir == Resolve(PathOf(last.dir)).parts
               expected ==
                   {f \in DOMAIN fs :
                       /\ Len(f) = Len(dir) + 1
                       /\ SubSeq(f, 1, Len(dir)) = dir
                       /\ fs[f].st = "file"
                       /\ EndsWith(f[Len(f)], PY_SUFFIX)
                       /\ f[Len(f)][1] # "_"}
               n == Len(last.listing)
           IN /\ last.outcome = "ok"
              /\ {last.listing[i].origin : i \in 1..n} = expected
              /\ n = Cardinality(expected)
              /\ \A i \in 1..n :
                    last.listing[i].name \o PY_SUFFIX = ItemName(last.listing[i])
              /\ \A i, j \in 1..n :
                    i < j => StrLess(ItemName(last.listing[i]),
                                     ItemName(last.listing[j]))

\* C15 as stated: when load and invocation succeed the exit code is the
\* integer the entry point returned, also after a failed reload; when the
\* load or the invocation fails the exit code is not 0.
C15_ExitCodeIsStatus ==
    /\ (last.op = "call" /\ last.outcome = "ok") => last.exit = last.status
    /\ (last.op \in {"load", "call"} /\ last.outcome # "ok") => last.exit > 0
    /\ (last.op = "reload" /\ last.outcome # "ok")
          => last.exit = -1 /\ pc = "ready"

\* C15 amended: when load and invocation succeed the exit code is the low 8
\* bits of the integer the entry point returned (the integer itself when it
\* is in 0..255), also after a failed reload, which does not end the
\* process; when the load or the invocation fails the exit code is 1.
C15_ExitCodeIsLowByte ==
    /\ (last.op = "call" /\ last.outcome = "ok")
          => /\ last.exit = last.status % 256
             /\ last.status \in 0..255 => last.exit = last.status
             /\ last.status =
                   EntryPoints[MainOf(last.unit)].result.i
    /\ (last.op \in {"load", "call"} /\ last.outcome # "ok") => last.exit = 1
    /\ (last.op = "load" /\ last.outcome = "ok") => last.exit = -1
    /\ (last.op = "reload" /\ last.outcome # "ok")
          => last.exit = -1 /\ pc = "ready"

\* a unit that a failed reload left half re-executed (VALUE from the new
\* content, EXTRA and main from the old) was invoked and returned 260
C15_Witness ==
    /\ last.op = "call" /\ last.outcome = "ok"
    /\ heap[last.unit].attrs["VALUE"] = "3"
    /\ heap[last.unit].attrs["EXTRA"] = "2"
    /\ last.status = 260
    /\ last.exit = 4

\* C16: after a load by bare short name or by path: that executed content,
\* the cache holds under the logical name the new unit of this load, and a
\* lookup of that name made by the content while it was executing returned
\* that very unit (neither nothing nor the unit cached there before); after
\* such a load failed because the file is missing, nothing was executed and
\* the cache holds under the name what it held before.
C16_EagerInsertion ==
    /\ (IsLoad(last) /\ FileIntent(last) /\ last.executed)
          => /\ last.name \in DOMAIN modules
             /\ modules[last.name] # last.prev
             /\ LET u == heap[modules[last.name]]
                IN /\ u.spec.origin = last.path
                   /\ u.attrs["SELF"] \in {Absent, "self"}
                   /\ Head(ContentOf(u.spec)) = LookupStep
                         => u.attrs["SELF"] = "self"
    /\ (IsLoad(last) /\ FileIntent(last)
        /\ last.outcome = "FileNotFoundError")
          => /\ ~last.executed
             /\ CachedUnit(modules, last.name) = last.prev

\* a file based load under a name that was cached before, whose content
\* looked its own name up first thing and found the new unit
C16_Witness ==
    /\ IsLoad(last) /\ FileIntent(last) /\ last.executed
    /\ last.prev # 0
    /\ last.name \in DOMAIN modules
    /\ Head(ContentOf(heap[modules[last.name]].spec)) = LookupStep
    /\ heap[modules[last.name]].attrs["SELF"] = "self"

\* C17: when a load by bare short name or by path: executes a file under a
\* logical name that is cached for a unit loaded from a different file, the
\* cache afterwards has the same names as before, holds under that name the
\* new unit of this load (the unit returned when the load succeeds) and no
\* longer the earlier one, and every entry under another name is the same
\* unit with the same attributes as before.
C17_SecondLoadOverwrites ==
    [][(/\ IsLoad(last') /\ FileIntent(last') /\ last'.executed
        /\ last'.name \in DOMAIN modules
        /\ heap[modules[last'.name]].spec # NoSpec
        /\ heap[modules[last'.name]].spec.origin # last'.path)
       => (/\ DOMAIN modules' = DOMAIN modules
           /\ modules'[last'.name] = Len(heap) + 1
           /\ modules'[last'.name] # modules[last'.name]
           /\ heap'[modules'[last'.name]].name = last'.name
           /\ heap'[modules'[last'.name]].spec.origin = last'.path
           /\ last'.outcome = "ok" => last'.unit = modules'[last'.name]
           /\ \A n \in DOMAIN modules :
                 n # last'.name
                 => /\ modules'[n] = modules[n]
                    /\ heap'[modules'[n]] = heap[modules[n]])]_vars

\* /q/h.py was loaded as __plugin__h while the unit of /p/h.py was cached
\* under that name, next to an entry cached under another name
C17_Witness ==
    /\ IsLoad(last) /\ FileIntent(last) /\ last.outcome = "ok"
    /\ last.name = PLUGIN_MARKER \o <<"h">>
    /\ last.porigin = FilePH
    /\ last.path = FileQH
    /\ modules[last.name] = last.unit
    /\ heap[last.unit].spec.origin = FileQH
    /\ \E n \in DOMAIN modules : n # last.name

\* C18 as stated: when the call with args entered the entry point and the
\* entry point returned normally, whatever value it returned, call_plugin
\* makes no second call, so the entry point is executed exactly once.
C18_NoSecondExecution ==
    (/\ last.op = "call"
     /\ last.calls # <<>>
     /\ last.calls[1].how = "args"
     /\ last.calls[1].entered
     /\ EntryPoints[MainOf(last.unit)].body = "return")
        => /\ Cardinality({i \in 1..Len(last.calls) :
                              last.calls[i].entered}) = 1
           /\ \A i \in 1..Len(last.calls) : last.calls[i].how # "noargs"

====
